---- MODULE Spec2Model ----
(***************************************************************************)
(* A model of the Tesla MCP client core (src/tesla_mcp/base.py) and of the *)
(* endpoint modules built on it.                                           *)
(*                                                                         *)
(* One endpoint operation call is followed from the moment the operation   *)
(* builds its context, path, query and body, through the HTTP attempts the *)
(* retrying session makes (urllib3 Retry mounted by _build_session), to    *)
(* the value or exception the operation hands back to its caller.          *)
(*                                                                         *)
(* Text that the code only concatenates or strips (URLs, paths,            *)
(* identifiers) is a sequence of tokens, "/" being a token of its own, so  *)
(* that concatenation is \o and rstrip("/") is computed.  Response bodies  *)
(* are opaque texts; JsonDecode gives what json() makes of each.           *)
(* Python values are records of one shape (tag t and one payload field     *)
(* per type), so that any two of them can be compared.                     *)
(*                                                                         *)
(* Three further specifications share the operators of the first: one    *)
(* call of every operation over wide inputs (SpecWide), the Tool Adapter   *)
(* of app.py in front of the operations (SpecTool), and two callers that   *)
(* share the one TeslaClient and its requests.Session (SpecShared).  The   *)
(* cookie jar of the session is followed in SpecShared.                    *)
(*                                                                         *)
(* Left out: the backoff sleeps between attempts, redirects (no response   *)
(* of the model is a 3xx), logging.                                        *)
(***************************************************************************)
EXTENDS Integers, Sequences, FiniteSets, TLC

VARIABLES
    env,           \* the process environment: TESLA_BASE_URL, TESLA_BYPASS
    pc,            \* "idle" (no call yet), "sending" (inside session.request), "done"
    call,          \* the operation call in progress or last finished
    request,       \* the outbound request TeslaClient.request handed to the session
    requestCalls,  \* how often the operation invoked TeslaClient.request
    retries,       \* the urllib3 Retry counters of the request in flight
    attempts,      \* HTTP attempts made for the call
    response,      \* the outcome of the latest attempt
    clientResult,  \* what TeslaClient.request returned or raised
    opResult,      \* what the operation returned or raised
    callContext,   \* the TeslaRequestContext the operation built for the call
    inbound,       \* the Authorization header of the inbound MCP request
    toolResult,    \* what the tool (_execute) returned or raised
    threads,       \* the calls of the concurrent callers, one record each
    cookies,       \* the cookie jar of the shared requests.Session, by host
    log,           \* the log records of the call in progress, in order
    verifier       \* the TeslaFleetTokenVerifier and the verification in progress

\* the Tool Adapter's state
toolVars == <<inbound, toolResult>>

\* the concurrent callers and what they share
sharedVars == <<threads, cookies>>

vars == <<env, pc, call, request, requestCalls, retries, attempts, response,
          clientResult, opResult, callContext, inbound, toolResult, threads, cookies,
          log, verifier>>

----------------------------------------------------------------------------
(* Python values *)

EmptyItems == [k \in {} |-> 0]

PyNone == [t |-> "None", s |-> "", n |-> 0, items |-> EmptyItems, elems |-> <<>>]

PyStr(x) == [t |-> "str", s |-> x, n |-> 0, items |-> EmptyItems, elems |-> <<>>]

PyInt(k) == [t |-> "int", s |-> "", n |-> k, items |-> EmptyItems, elems |-> <<>>]

PyBool(b) == [t |-> "bool", s |-> "", n |-> IF b THEN 1 ELSE 0, items |-> EmptyItems, elems |-> <<>>]

PyDict(m) == [t |-> "dict", s |-> "", n |-> 0, items |-> m, elems |-> <<>>]

PyList(l) == [t |-> "list", s |-> "", n |-> 0, items |-> EmptyItems, elems |-> l]

EmptyDict == PyDict(EmptyItems)

\* bool(v)
Truthy(v) ==
    CASE v.t = "None" -> FALSE
      [] v.t = "str"  -> v.s # ""
      [] v.t = "int"  -> v.n # 0
      [] v.t = "bool" -> v.n # 0
      [] v.t = "dict" -> DOMAIN v.items # {}
      [] v.t = "list" -> v.elems # <<>>

\* a or b
Or(a, b) == IF Truthy(a) THEN a ELSE b

\* d[k] = v on a dict
DictSet(d, k, v) ==
    PyDict([x \in (DOMAIN d.items) \cup {k} |-> IF x = k THEN v ELSE d.items[x]])

\* d.get(k)
DictGet(d, k) == IF k \in DOMAIN d.items THEN d.items[k] ELSE PyNone

HasKey(d, k) == d.t = "dict" /\ k \in DOMAIN d.items

----------------------------------------------------------------------------
(* Text as token sequences *)

RECURSIVE Rstrip(_)
\* s.rstrip("/")
Rstrip(s) ==
    IF s # <<>> /\ s[Len(s)] = "/" THEN Rstrip(SubSeq(s, 1, Len(s) - 1)) ELSE s

DEFAULT_TESLA_BASE_URL == <<"https:", "/", "/", "api.myteslamate.com">>

\* mutation of GetEnv: the environment as it was when nothing was set
GetEnv_unset(name, default) == default

\* os.getenv(name, default)
GetEnv(name, default) == IF env[name].set THEN env[name].val ELSE default

----------------------------------------------------------------------------
(* TeslaRequestContext *)

TeslaRequestContext(bearer_token, base_url) ==
    [bearer_token |-> bearer_token, base_url |-> base_url]

\* mutation of from_env: the base URL is taken as it stands
from_env_no_rstrip(bearer_token) ==
    TeslaRequestContext(bearer_token, GetEnv("TESLA_BASE_URL", DEFAULT_TESLA_BASE_URL))

from_env(bearer_token) ==
    LET resolved_base == GetEnv("TESLA_BASE_URL", DEFAULT_TESLA_BASE_URL)
    IN  TeslaRequestContext(bearer_token, Rstrip(resolved_base))

----------------------------------------------------------------------------
(* Results: a value returned or an exception raised *)

Return(v) ==
    [kind |-> "return", value |-> v, exc |-> "", message |-> PyNone,
     status_code |-> PyNone, payload |-> PyNone]

\* TeslaAPIError(message, status_code, payload), raised
TeslaAPIError(message, status_code, payload) ==
    [kind |-> "raise", value |-> PyNone, exc |-> "TeslaAPIError", message |-> message,
     status_code |-> status_code, payload |-> Or(payload, EmptyDict)]

\* any other exception, raised: it has no status_code and no payload
Raise(exc) ==
    [kind |-> "raise", value |-> PyNone, exc |-> exc, message |-> PyNone,
     status_code |-> PyNone, payload |-> PyNone]

----------------------------------------------------------------------------
(* Response bodies and their decoding *)

BodyEmpty == ""
BodyError == "{\"error\": \"invalid bearer token\"}"
BodyErrorEmpty == "{\"error\": \"\"}"
BodyWrapped == "{\"response\": {\"result\": true, \"reason\": \"\"}}"
BodyPlain == "{\"result\": true}"
BodyList == "[\"response\"]"
BodyEmptyList == "[]"
BodyNull == "null"
BodyPDF == "%PDF-1.4"
BodyText == "no response from vehicle"

\* response.json(): ok is FALSE where it raises the ValueError of an undecodable body
JsonDecode(body) ==
    CASE body = BodyError      ->
            [ok |-> TRUE, value |-> PyDict([error |-> PyStr("invalid bearer token")])]
      [] body = BodyErrorEmpty -> [ok |-> TRUE, value |-> PyDict([error |-> PyStr("")])]
      [] body = BodyWrapped    ->
            [ok |-> TRUE,
             value |-> PyDict([response |->
                          PyDict([result |-> PyBool(TRUE), reason |-> PyStr("")])])]
      [] body = BodyPlain      -> [ok |-> TRUE, value |-> PyDict([result |-> PyBool(TRUE)])]
      [] body = BodyList       -> [ok |-> TRUE, value |-> PyList(<<PyStr("response")>>)]
      [] body = BodyEmptyList  -> [ok |-> TRUE, value |-> PyList(<<>>)]
      [] body = BodyNull       -> [ok |-> TRUE, value |-> PyNone]
      [] OTHER                 -> [ok |-> FALSE, value |-> PyNone]

\* str(exc) of the HTTPError raise_for_status raises: the status and its description
HTTPErrorStr(status) ==
    CASE status = 401 -> "401 Client Error: Unauthorized"
      [] status = 404 -> "404 Client Error: Not Found"
      [] status = 413 -> "413 Client Error: Request Entity Too Large"
      [] status = 429 -> "429 Client Error: Too Many Requests"
      [] status = 500 -> "500 Server Error: Internal Server Error"
      [] status = 502 -> "502 Server Error: Bad Gateway"
      [] status = 503 -> "503 Server Error: Service Unavailable"
      [] status = 504 -> "504 Server Error: Gateway Timeout"
      [] OTHER        -> "HTTP Error"

\* response.raise_for_status() raises
RaisesForStatus(status) == 400 <= status /\ status < 600

----------------------------------------------------------------------------
(* TeslaClient *)

max_retries == 3

timeout == 30

\* mutation of BuildRetry: twice the budget
BuildRetry_twice ==
    [total |-> 2 * max_retries, read |-> 2 * max_retries, connect |-> 2 * max_retries]

\* the Retry of _build_session: total, read and connect; no status or redirect count
BuildRetry == [total |-> max_retries, read |-> max_retries, connect |-> max_retries]

status_forcelist == {429, 500, 502, 503, 504}

\* mutation of allowed_methods: urllib3's default, which leaves POST out
allowed_methods_default == {"HEAD", "GET", "PUT", "DELETE", "OPTIONS", "TRACE"}

allowed_methods == {"GET", "POST", "PUT", "DELETE"}

\* urllib3: the statuses for which a Retry-After header is honoured (the Retry of
\* _build_session leaves respect_retry_after_header at its default, True)
RETRY_AFTER_STATUS_CODES == {413, 429, 503}

\* Retry.is_retry(method, status_code, has_retry_after)
is_retry(retry, method, status_code, has_retry_after) ==
    IF method \notin allowed_methods THEN FALSE
    ELSE IF status_code \in status_forcelist THEN TRUE
    ELSE retry.total # 0 /\ has_retry_after /\ status_code \in RETRY_AFTER_STATUS_CODES

\* mutation of increment: an attempt that timed out is not counted
increment_timeouts_free(retry, outcome) ==
    IF outcome.timed_out THEN retry
    ELSE [total   |-> retry.total - 1,
          connect |-> IF outcome.kind = "connect_error"
                      THEN retry.connect - 1 ELSE retry.connect,
          read    |-> IF outcome.kind = "read_error" THEN retry.read - 1 ELSE retry.read]

\* Retry.increment: total counts every failure, connect and read their own kind
increment(retry, outcome) ==
    [total   |-> retry.total - 1,
     connect |-> IF outcome.kind = "connect_error" THEN retry.connect - 1 ELSE retry.connect,
     read    |-> IF outcome.kind = "read_error" THEN retry.read - 1 ELSE retry.read]

\* mutation of is_exhausted: the last retry is not made
is_exhausted_early(retry) == retry.total < 1 \/ retry.connect < 0 \/ retry.read < 0

\* Retry.is_exhausted
is_exhausted(retry) == retry.total < 0 \/ retry.connect < 0 \/ retry.read < 0

_build_headers(context) ==
    [Authorization |-> <<"Bearer ", context.bearer_token>>,
     ContentType   |-> "application/json",
     Accept        |-> "application/json",
     UserAgent     |-> "Tesla-MCP/1.0"]

\* mutation of _handle_response: the `error` field is taken whatever its value
_handle_response_any_error(resp) ==
    LET decoded == JsonDecode(resp.body)
    IN  IF RaisesForStatus(resp.status)
        THEN LET payload == IF decoded.ok THEN decoded.value ELSE PyNone
                 message == IF HasKey(payload, "error")
                            THEN DictGet(payload, "error")
                            ELSE PyStr(HTTPErrorStr(resp.status))
             IN  TeslaAPIError(message, PyInt(resp.status), payload)
        ELSE IF resp.body = "" THEN Return(PyNone)
        ELSE IF decoded.ok THEN Return(decoded.value)
        ELSE Return(PyStr(resp.body))

\* mutation of _handle_response: no fallback to the text of an undecodable body
_handle_response_no_fallback(resp) ==
    LET decoded == JsonDecode(resp.body)
    IN  IF RaisesForStatus(resp.status)
        THEN LET payload == IF decoded.ok THEN decoded.value ELSE PyNone
                 message == IF payload.t = "dict" /\ Truthy(DictGet(payload, "error"))
                            THEN DictGet(payload, "error")
                            ELSE PyStr(HTTPErrorStr(resp.status))
             IN  TeslaAPIError(message, PyInt(resp.status), payload)
        ELSE IF resp.body = "" THEN Return(PyNone)
        ELSE IF decoded.ok THEN Return(decoded.value)
        ELSE Raise("ValueError")

_handle_response(resp) ==
    LET decoded == JsonDecode(resp.body)
    IN  IF RaisesForStatus(resp.status)
        THEN LET payload == IF decoded.ok THEN decoded.value ELSE PyNone
                 message == IF payload.t = "dict" /\ Truthy(DictGet(payload, "error"))
                            THEN DictGet(payload, "error")
                            ELSE PyStr(HTTPErrorStr(resp.status))
             IN  TeslaAPIError(message, PyInt(resp.status), payload)
        ELSE IF resp.body = "" THEN Return(PyNone)
        ELSE IF decoded.ok THEN Return(decoded.value)
        ELSE Return(PyStr(resp.body))

\* mutation of BuildRequest: the bypass value joins only a query the caller gave
BuildRequest_bypass_given_params(method, endpoint, context, params, json) ==
    LET url == context.base_url \o endpoint
        bypass_value == GetEnv("TESLA_BYPASS", "")
        params1 == IF params.t = "None" THEN EmptyDict
                   ELSE IF bypass_value # "" THEN DictSet(params, "bypass", PyStr(bypass_value))
                   ELSE params
    IN  [method |-> method, url |-> url, timeout |-> timeout,
         headers |-> _build_headers(context), params |-> params1, json |-> json]

\* TeslaClient.request up to the call of session.request: the outbound request
\* mutation of BuildRequest: a bypass value the caller gave is kept
BuildRequest_keeps_caller_bypass(method, endpoint, context, params, json) ==
    LET url == context.base_url \o endpoint
        params0 == IF params.t = "None" THEN EmptyDict ELSE params
        bypass_value == GetEnv("TESLA_BYPASS", "")
        params1 == IF bypass_value # "" /\ ~HasKey(params0, "bypass")
                   THEN DictSet(params0, "bypass", PyStr(bypass_value))
                   ELSE params0
    IN  [method |-> method, url |-> url, timeout |-> timeout,
         headers |-> _build_headers(context), params |-> params1, json |-> json]

BuildRequest(method, endpoint, context, params, json) ==
    LET url == context.base_url \o endpoint
        params0 == IF params.t = "None" THEN EmptyDict ELSE params
        bypass_value == GetEnv("TESLA_BYPASS", "")
        params1 == IF bypass_value # "" THEN DictSet(params0, "bypass", PyStr(bypass_value))
                   ELSE params0
    IN  [method |-> method, url |-> url, timeout |-> timeout,
         headers |-> _build_headers(context), params |-> params1, json |-> json]

\* the arguments get, post and delete pass on to request
Get(endpoint, context, params) ==
    [method |-> "GET", endpoint |-> endpoint, context |-> context,
     params |-> params, json |-> PyNone]

Post(endpoint, context, json) ==
    [method |-> "POST", endpoint |-> endpoint, context |-> context,
     params |-> PyNone, json |-> json]

Delete(endpoint, context, params) ==
    [method |-> "DELETE", endpoint |-> endpoint, context |-> context,
     params |-> params, json |-> PyNone]

----------------------------------------------------------------------------
(* TeslaModule and the endpoint modules.  An operation is the invocation   *)
(* of the client it makes; an unset optional parameter is PyNone.          *)

Api1 == <<"/", "api", "/", "1">>

\* TeslaModule._vehicle_path(vehicle_tag, suffix)
_vehicle_path(vehicle_tag, suffix) ==
    LET clean_suffix == IF suffix # <<>> THEN <<"/">> \o suffix ELSE <<>>
    IN  Api1 \o <<"/", "vehicles", "/">> \o vehicle_tag \o clean_suffix

\* EnergyModule._energy_site_path(energy_site_id, suffix)
_energy_site_path(energy_site_id, suffix) ==
    LET clean_suffix == IF suffix # <<>> THEN <<"/">> \o suffix ELSE <<>>
    IN  Api1 \o <<"/", "energy_sites", "/">> \o energy_site_id \o clean_suffix

\* mutation of _command: the payload is passed on as given, None included
_command_no_default(vehicle_tag, command, bearer_token, payload) ==
    LET context == from_env(bearer_token)
        endpoint == _vehicle_path(vehicle_tag, <<"command", "/", command>>)
    IN  Post(endpoint, context, payload)

\* VehicleCommandsModule._command up to the call of client.post
_command(vehicle_tag, command, bearer_token, payload) ==
    LET context == from_env(bearer_token)
        endpoint == _vehicle_path(vehicle_tag, <<"command", "/", command>>)
    IN  Post(endpoint, context, Or(payload, EmptyDict))

\* 'response' in text, for the texts of the model
ContainsResponse(text) == text = BodyText

\* res['response'] if 'response' in res else res, on what client.post returned:
\* `in` is key membership on a dict, substring search on a str, element
\* membership on a list and a TypeError on None; indexing a str or a list
\* with 'response' is a TypeError
Unwrap(res) ==
    CASE res.t = "dict" ->
            IF "response" \in DOMAIN res.items THEN Return(res.items["response"])
            ELSE Return(res)
      [] res.t = "str"  ->
            IF ContainsResponse(res.s) THEN Raise("TypeError") ELSE Return(res)
      [] res.t = "list" ->
            IF \E i \in DOMAIN res.elems : res.elems[i] = PyStr("response")
            THEN Raise("TypeError") ELSE Return(res)
      [] OTHER          -> Raise("TypeError")

\* mutation of _command_result: an exception of the client is caught and an
\* empty result returned
_command_result_swallow(res) ==
    IF res.kind = "raise" THEN Return(EmptyDict) ELSE Unwrap(res.value)

\* VehicleCommandsModule._command after client.post: an exception of the client
\* passes through
_command_result(res) == IF res.kind = "raise" THEN res ELSE Unwrap(res.value)

door_lock(vehicle_tag, bearer_token) ==
    _command(vehicle_tag, "door_lock", bearer_token, PyNone)

set_temps(vehicle_tag, driver_temp, passenger_temp, bearer_token) ==
    LET payload0 == EmptyDict
        payload1 == IF driver_temp.t # "None"
                    THEN DictSet(payload0, "driver_temp", driver_temp) ELSE payload0
        payload2 == IF passenger_temp.t # "None"
                    THEN DictSet(payload1, "passenger_temp", passenger_temp) ELSE payload1
    IN  _command(vehicle_tag, "set_temps", bearer_token, payload2)

add_charge_schedule(vehicle_tag, time, latitude, longitude, bearer_token, name, one_time) ==
    LET payload0 == PyDict([time |-> time, latitude |-> latitude, longitude |-> longitude])
        payload1 == IF Truthy(name) THEN DictSet(payload0, "name", name) ELSE payload0
        payload2 == IF one_time.t # "None"
                    THEN DictSet(payload1, "one_time", one_time) ELSE payload1
    IN  _command(vehicle_tag, "add_charge_schedule", bearer_token, payload2)

\* VehicleEndpoints
products(bearer_token) ==
    Get(Api1 \o <<"/", "products">>, from_env(bearer_token), PyNone)

get_vehicle(vehicle_tag, bearer_token) ==
    Get(_vehicle_path(vehicle_tag, <<>>), from_env(bearer_token), PyNone)

remove_driver(vehicle_tag, bearer_token, share_user_id) ==
    LET params0 == EmptyDict
        params1 == IF Truthy(share_user_id)
                   THEN DictSet(params0, "share_user_id", share_user_id) ELSE params0
    IN  Delete(_vehicle_path(vehicle_tag, <<"drivers">>), from_env(bearer_token),
               Or(params1, PyNone))

\* EnergyModule
site_info(energy_site_id, bearer_token) ==
    Get(_energy_site_path(energy_site_id, <<"site_info">>), from_env(bearer_token), PyNone)

grid_import_export(energy_site_id, bearer_token, disallow_charge_from_grid_with_solar_installed, customer_preferred_export_rule) ==
    LET payload0 == EmptyDict
        payload1 == IF disallow_charge_from_grid_with_solar_installed.t # "None"
                    THEN DictSet(payload0, "disallow_charge_from_grid_with_solar_installed",
                                 disallow_charge_from_grid_with_solar_installed)
                    ELSE payload0
        payload2 == IF customer_preferred_export_rule.t # "None"
                    THEN DictSet(payload1, "customer_preferred_export_rule",
                                 customer_preferred_export_rule)
                    ELSE payload1
    IN  Post(_energy_site_path(energy_site_id, <<"grid_import_export">>),
             from_env(bearer_token), payload2)

\* ChargingModule
\* mutation of charging_history: page and page_size are sent whether set or not
charging_history_unfiltered(bearer_token, vin, page, page_size, start_time, end_time, sort_by, sort_order) ==
    LET p0 == EmptyDict
        p1 == IF Truthy(vin) THEN DictSet(p0, "vin", vin) ELSE p0
        p2 == DictSet(p1, "page", page)
        p3 == DictSet(p2, "pageSize", page_size)
        p4 == IF Truthy(start_time) THEN DictSet(p3, "startTime", start_time) ELSE p3
        p5 == IF Truthy(end_time) THEN DictSet(p4, "endTime", end_time) ELSE p4
        p6 == IF Truthy(sort_by) THEN DictSet(p5, "sortBy", sort_by) ELSE p5
        p7 == IF Truthy(sort_order) THEN DictSet(p6, "sortOrder", sort_order) ELSE p6
    IN  Get(Api1 \o <<"/", "dx", "/", "charging", "/", "history">>,
            from_env(bearer_token), p7)

charging_history(bearer_token, vin, page, page_size, start_time, end_time, sort_by, sort_order) ==
    LET p0 == EmptyDict
        p1 == IF Truthy(vin) THEN DictSet(p0, "vin", vin) ELSE p0
        p2 == IF page.t # "None" THEN DictSet(p1, "page", page) ELSE p1
        p3 == IF page_size.t # "None" THEN DictSet(p2, "pageSize", page_size) ELSE p2
        p4 == IF Truthy(start_time) THEN DictSet(p3, "startTime", start_time) ELSE p3
        p5 == IF Truthy(end_time) THEN DictSet(p4, "endTime", end_time) ELSE p4
        p6 == IF Truthy(sort_by) THEN DictSet(p5, "sortBy", sort_by) ELSE p5
        p7 == IF Truthy(sort_order) THEN DictSet(p6, "sortOrder", sort_order) ELSE p6
    IN  Get(Api1 \o <<"/", "dx", "/", "charging", "/", "history">>,
            from_env(bearer_token), p7)

charging_invoice(invoice_id, bearer_token) ==
    Get(Api1 \o <<"/", "dx", "/", "charging", "/", "invoice", "/">> \o invoice_id,
        from_env(bearer_token), PyNone)

\* TeslaMateAPIModule
\* mutation of _get_teslamate_context: the endpoint is taken as it stands
_get_teslamate_context_raw(bearer_token, endpoint) ==
    TeslaRequestContext(bearer_token, endpoint)

_get_teslamate_context(bearer_token, endpoint) ==
    TeslaRequestContext(bearer_token, Rstrip(endpoint))

\* get_car sending to the base URL of the environment
get_car_from_env(car_id, bearer_token, endpoint) ==
    Get(<<"/", "api", "/", "v1", "/", "cars", "/">> \o car_id, from_env(bearer_token), PyNone)

get_car(car_id, bearer_token, endpoint) ==
    Get(<<"/", "api", "/", "v1", "/", "cars", "/">> \o car_id,
        _get_teslamate_context(bearer_token, endpoint), PyNone)

get_car_charges(car_id, bearer_token, endpoint, start_date, end_date) ==
    LET params0 == EmptyDict
        params1 == IF Truthy(start_date)
                   THEN DictSet(params0, "startDate", start_date) ELSE params0
        params2 == IF Truthy(end_date)
                   THEN DictSet(params1, "endDate", end_date) ELSE params1
    IN  Get(<<"/", "api", "/", "v1", "/", "cars", "/">> \o car_id \o <<"/", "charges">>,
            _get_teslamate_context(bearer_token, endpoint), params2)

----------------------------------------------------------------------------
(* Operation calls *)

CommandOps == {"door_lock", "set_temps", "add_charge_schedule"}

\* The client invocation the called operation makes
Operation(c) ==
    CASE c.op = "door_lock" -> door_lock(c.id, c.bearer_token)
      [] c.op = "set_temps" ->
            set_temps(c.id, c.opts["driver_temp"], c.opts["passenger_temp"], c.bearer_token)
      [] c.op = "add_charge_schedule" ->
            add_charge_schedule(c.id, PyStr("07:30"), PyInt(48), PyInt(2), c.bearer_token,
                                c.opts["name"], c.opts["one_time"])
      [] c.op = "products" -> products(c.bearer_token)
      [] c.op = "get_vehicle" -> get_vehicle(c.id, c.bearer_token)
      [] c.op = "remove_driver" -> remove_driver(c.id, c.bearer_token, c.opts["share_user_id"])
      [] c.op = "site_info" -> site_info(c.id, c.bearer_token)
      [] c.op = "grid_import_export" ->
            grid_import_export(c.id, c.bearer_token,
                               c.opts["disallow_charge_from_grid_with_solar_installed"],
                               c.opts["customer_preferred_export_rule"])
      [] c.op = "charging_history" ->
            charging_history(c.bearer_token, c.opts["vin"], c.opts["page"],
                             c.opts["page_size"], c.opts["start_time"], c.opts["end_time"],
                             c.opts["sort_by"], c.opts["sort_order"])
      [] c.op = "charging_invoice" -> charging_invoice(c.id, c.bearer_token)
      [] c.op = "get_car" -> get_car(c.id, c.bearer_token, c.endpoint)
      [] c.op = "get_car_charges" ->
            get_car_charges(c.id, c.bearer_token, c.endpoint,
                            c.opts["start_date"], c.opts["end_date"])

\* mutation of OperationResult: every operation unwraps like a command
OperationResult_unwrap_all(c, res) == _command_result(res)

\* What the operation makes of the client's result: the command operations go
\* through _command, every other operation returns the client's result as it is
OperationResult(c, res) == IF c.op \in CommandOps THEN _command_result(res) ELSE res

MkCall(op, id, endpoint, opts) ==
    [op |-> op, bearer_token |-> "T", id |-> id, endpoint |-> endpoint, opts |-> opts]

NoOpts == [k \in {} |-> PyNone]

----------------------------------------------------------------------------
(* Inputs *)

MaxTrailingSlashes == 2

RECURSIVE Slashes(_)
Slashes(k) == IF k = 0 THEN <<>> ELSE <<"/">> \o Slashes(k - 1)

Host == <<"https:", "/", "/", "tesla.example">>

\* base URLs of the environment and of TeslaMate callers: a host followed by
\* 0..MaxTrailingSlashes slashes, and one with a double slash inside its path.
\* (An empty or scheme-less base URL makes session.request fail before any
\* attempt; it is not among the inputs.)
BaseUrls ==
    {Host \o Slashes(k) : k \in 0..MaxTrailingSlashes}
        \cup {Host \o <<"/", "/", "proxy">> \o Slashes(k) : k \in 0..1}

Unset == [set |-> FALSE, val |-> <<>>]

BaseChoices == {Unset} \cup {[set |-> TRUE, val |-> u] : u \in BaseUrls}

BypassChoices ==
    {[set |-> FALSE, val |-> ""], [set |-> TRUE, val |-> ""], [set |-> TRUE, val |-> "tok"]}

Envs == {[TESLA_BASE_URL |-> b, TESLA_BYPASS |-> y] : b \in BaseChoices, y \in BypassChoices}

\* identifiers put into paths: empty, plain, a slash, one holding a slash
Identifiers == {<<>>, <<"VIN1">>, <<"/">>, <<"a", "/", "b">>}

\* TeslaMate car ids are integers: their text is digits
CarIds == {<<"1">>, <<"42">>}

OptStr == {PyNone, PyStr(""), PyStr("x")}

OptInt == {PyNone, PyInt(0), PyInt(1)}

OptBool == {PyNone, PyBool(FALSE), PyBool(TRUE)}

\* every call of the modelled operations over the inputs above
WideCalls ==
    {MkCall(op, id, <<>>, NoOpts) :
        op \in {"door_lock", "get_vehicle", "site_info", "charging_invoice"},
        id \in Identifiers}
    \cup {MkCall("products", <<>>, <<>>, NoOpts)}
    \cup {MkCall("set_temps", id, <<>>, [driver_temp |-> d, passenger_temp |-> p]) :
            id \in Identifiers, d \in OptInt, p \in OptInt}
    \cup {MkCall("add_charge_schedule", id, <<>>, [name |-> nm, one_time |-> o]) :
            id \in Identifiers, nm \in OptStr, o \in OptBool}
    \cup {MkCall("remove_driver", id, <<>>, [share_user_id |-> u]) :
            id \in Identifiers, u \in OptStr}
    \cup {MkCall("grid_import_export", id, <<>>,
                 [disallow_charge_from_grid_with_solar_installed |-> d,
                  customer_preferred_export_rule |-> r]) :
            id \in Identifiers, d \in OptBool, r \in OptStr}
    \cup {MkCall("charging_history", <<>>, <<>>,
                 [vin |-> v, page |-> pg, page_size |-> ps, start_time |-> st,
                  end_time |-> et, sort_by |-> sb, sort_order |-> so]) :
            v \in OptStr, pg \in OptInt, ps \in OptInt, st \in OptStr,
            et \in OptStr, sb \in OptStr, so \in OptStr}
    \cup {MkCall("get_car", id, e, NoOpts) : id \in CarIds, e \in BaseUrls}
    \cup {MkCall("get_car_charges", id, e, [start_date |-> sd, end_date |-> ed]) :
            id \in CarIds, e \in BaseUrls, sd \in OptStr, ed \in OptStr}

\* the calls followed through every upstream outcome
Calls ==
    {MkCall(op, <<"VIN1">>, <<>>, NoOpts) : op \in {"door_lock", "site_info", "charging_invoice"}}
    \cup {MkCall("products", <<>>, <<>>, NoOpts)}
    \cup {MkCall("set_temps", <<"VIN1">>, <<>>,
                 [driver_temp |-> PyInt(1), passenger_temp |-> PyNone])}
    \cup {MkCall("get_car", <<"1">>, Host \o <<"/">>, NoOpts)}
    \cup {MkCall("remove_driver", <<"VIN1">>, <<>>, [share_user_id |-> PyStr("x")])}

\* the environments of those calls
NarrowEnvs ==
    {[TESLA_BASE_URL |-> Unset, TESLA_BYPASS |-> [set |-> FALSE, val |-> ""]],
     [TESLA_BASE_URL |-> [set |-> TRUE, val |-> Host \o <<"/">>],
      TESLA_BYPASS |-> [set |-> TRUE, val |-> "tok"]]}

\* statuses the upstream answers with: 2xx, and 4xx/5xx inside and outside
\* status_forcelist and RETRY_AFTER_STATUS_CODES
Statuses == {200, 204, 401, 413, 429, 500}

Bodies ==
    {BodyEmpty, BodyError, BodyErrorEmpty, BodyWrapped, BodyPlain, BodyList,
     BodyEmptyList, BodyNull, BodyPDF, BodyText}

----------------------------------------------------------------------------
(* Outcomes of one HTTP attempt *)

NoResponse ==
    [kind |-> "none", status |-> 0, retry_after |-> FALSE, body |-> "", timed_out |-> FALSE]

ConnectError ==
    [kind |-> "connect_error", status |-> 0, retry_after |-> FALSE, body |-> "",
     timed_out |-> FALSE]

ReadError ==
    [kind |-> "read_error", status |-> 0, retry_after |-> FALSE, body |-> "",
     timed_out |-> FALSE]

\* the connection is not made within the timeout: to Retry, a connect error
ConnectTimeout ==
    [kind |-> "connect_error", status |-> 0, retry_after |-> FALSE, body |-> "",
     timed_out |-> TRUE]

\* the upstream sends nothing within the timeout: to Retry, a read error
ReadTimeout ==
    [kind |-> "read_error", status |-> 0, retry_after |-> FALSE, body |-> "",
     timed_out |-> TRUE]

HttpResponse(status, retry_after, body) ==
    [kind |-> "response", status |-> status, retry_after |-> retry_after, body |-> body,
     timed_out |-> FALSE]

\* the responses of the upstream; a Retry-After header comes with 413 and 429 only
Responses ==
    {HttpResponse(status, FALSE, body) : status \in Statuses, body \in Bodies}
        \cup {HttpResponse(status, TRUE, body) :
                status \in Statuses \cap {413, 429}, body \in Bodies}

Pending ==
    [kind |-> "pending", value |-> PyNone, exc |-> "", message |-> PyNone,
     status_code |-> PyNone, payload |-> PyNone]

\* session.request and _handle_response on one more attempt's outcome, with the
\* Retry counters as they stand: either the session tries again (final FALSE), or
\* TeslaClient.request ends with `result`.  A response that is not to be retried
\* goes to _handle_response; a failure with the counters exhausted leaves
\* session.request as the exception requests makes of urllib3's MaxRetryError
\* (RetryError for a status of the forcelist, ConnectionError otherwise).
SessionRequest(retry, method, outcome) ==
    IF outcome.kind = "response"
       /\ ~is_retry(retry, method, outcome.status, outcome.retry_after)
    THEN [final |-> TRUE, retries |-> retry, result |-> _handle_response(outcome)]
    ELSE LET next_retry == increment(retry, outcome)
         IN  IF is_exhausted(next_retry)
             THEN [final |-> TRUE, retries |-> next_retry,
                   result |-> Raise(IF outcome.kind = "response"
                                    THEN "requests.RetryError"
                                    ELSE "requests.ConnectionError")]
             ELSE [final |-> FALSE, retries |-> next_retry, result |-> Pending]

\* mutation of InFlight: the request goes on in the background after the call ended
InFlightAfterReturn == pc \in {"sending", "done"}

\* session.request is a blocking call: attempts are made only inside it
InFlight == pc = "sending"

----------------------------------------------------------------------------
(* The state before any call *)

\* no context built yet
NoContext == TeslaRequestContext("", <<>>)

\* no inbound MCP request yet
NoInbound == [present |-> FALSE, value |-> <<>>]

ToolPending == [kind |-> "pending", exc |-> "", value |-> PyNone, text |-> <<>>]

NumThreads == 2

Threads == 1..NumThreads

NoCookie == ""

IdleThread ==
    [pc |-> "idle", call |-> MkCall("none", <<>>, <<>>, NoOpts), context |-> NoContext,
     request |-> BuildRequest("GET", <<>>, NoContext, PyNone, PyNone),
     cookie |-> NoCookie, retries |-> BuildRetry, attempts |-> 0, result |-> Pending]

\* the hosts the calls of the model go to
Hostnames == {"api.myteslamate.com", "tesla.example"}

EmptyJar == [h \in Hostnames |-> NoCookie]

\* method.upper()
Upper(method) ==
    CASE method \in {"get", "GET"}       -> "GET"
      [] method \in {"post", "POST"}     -> "POST"
      [] method \in {"delete", "DELETE"} -> "DELETE"
      [] OTHER                           -> method

\* mutation of DebugRecord: the entry records the bypass value of the query too
DebugRecord_with_query(method, url) ==
    [logger |-> "tesla_mcp.client", level |-> "DEBUG",
     text |-> <<"Tesla API ", Upper(method), " ">> \o url
                 \o <<"?bypass=", GetEnv("TESLA_BYPASS", "")>>]

\* self.logger.debug("Tesla API %s %s", method.upper(), url): the record handed to
\* the logger tesla_mcp.client, its text as tokens
DebugRecord(method, url) ==
    [logger |-> "tesla_mcp.client", level |-> "DEBUG",
     text |-> <<"Tesla API ", Upper(method), " ">> \o url]

\* None where verify_token returns an AccessToken
NoAccessToken ==
    [none |-> TRUE, token |-> "", client_id |-> "", scopes |-> <<>>, expires_at |-> PyNone,
     resource_owner |-> PyNone, claims |-> EmptyDict, issuer |-> <<>>]

\* what verify_token ends with: a value returned or an exception raised
VerifyPending == [kind |-> "pending", exc |-> "", token |-> NoAccessToken]

\* no request sent to /api/1/users/me yet
NoVerifyRequest ==
    [method |-> "GET", url |-> <<>>, timeout |-> 0,
     headers |-> [Authorization |-> <<"Bearer ", "">>, Accept |-> "application/json"]]

\* TeslaFleetTokenVerifier.__init__: base URLs without trailing slashes (an
\* auth_base_url of None or "" is <<>>), and no verification in progress
TeslaFleetTokenVerifier(api_base_url, auth_base_url, required_scopes, seconds) ==
    [pc |-> "idle", api_base_url |-> Rstrip(api_base_url),
     auth_base_url |-> Rstrip(auth_base_url), required_scopes |-> required_scopes,
     timeout_seconds |-> seconds, token |-> "", sent |-> NoVerifyRequest,
     outcome |-> NoResponse, result |-> VerifyPending]

\* the verifier of a process that verifies nothing: no required scopes
IdleVerifier == TeslaFleetTokenVerifier(DEFAULT_TESLA_BASE_URL, <<>>, <<>>, 10)

----------------------------------------------------------------------------
(* Actions *)

Init ==
    /\ env \in NarrowEnvs
    /\ pc = "idle"
    /\ call = MkCall("none", <<>>, <<>>, NoOpts)
    /\ request = BuildRequest("GET", <<>>, TeslaRequestContext("", <<>>), PyNone, PyNone)
    /\ requestCalls = 0
    /\ retries = BuildRetry
    /\ attempts = 0
    /\ response = NoResponse
    /\ clientResult = Pending
    /\ opResult = Pending
    /\ callContext = NoContext
    /\ inbound = NoInbound
    /\ toolResult = ToolPending
    /\ threads = [t \in Threads |-> IdleThread]
    /\ cookies = EmptyJar
    /\ log = <<>>
    /\ verifier = IdleVerifier

\* The caller calls operation c: the operation builds context, path, query and
\* body and invokes TeslaClient.request, which hands the request to the session
OperationCall(c) ==
    /\ pc \in {"idle", "done"}
    /\ LET inv == Operation(c)
       IN  request' = BuildRequest(inv.method, inv.endpoint, inv.context,
                                   inv.params, inv.json)
    /\ callContext' = Operation(c).context
    /\ LET inv == Operation(c)
       IN  log' = <<DebugRecord(inv.method, inv.context.base_url \o inv.endpoint)>>
    /\ call' = c
    /\ requestCalls' = 1
    /\ retries' = BuildRetry
    /\ attempts' = 0
    /\ response' = NoResponse
    /\ clientResult' = Pending
    /\ opResult' = Pending
    /\ pc' = "sending"
    /\ UNCHANGED env

\* One HTTP attempt ends with `outcome`
Attempt(outcome) ==
    /\ InFlight
    /\ attempts' = attempts + 1
    /\ response' = outcome
    /\ LET step == SessionRequest(retries, request.method, outcome)
       IN  /\ retries' = step.retries
           /\ IF step.final
              THEN /\ clientResult' = step.result
                   /\ opResult' = OperationResult(call, step.result)
                   /\ pc' = "done"
              ELSE /\ UNCHANGED <<clientResult, opResult>>
                   /\ pc' = "sending"
    /\ UNCHANGED <<env, call, request, requestCalls, callContext>>

Call == (\E c \in Calls : OperationCall(c)) /\ UNCHANGED <<toolVars, sharedVars, verifier>>

ConnectFailure == Attempt(ConnectError) /\ UNCHANGED <<toolVars, sharedVars, log, verifier>>

ReadFailure == Attempt(ReadError) /\ UNCHANGED <<toolVars, sharedVars, log, verifier>>

UpstreamResponse ==
    (\E r \in Responses : Attempt(r)) /\ UNCHANGED <<toolVars, sharedVars, log, verifier>>

\* An attempt ends because the timeout of the request ran out
Timeout ==
    (\E outcome \in {ConnectTimeout, ReadTimeout} : Attempt(outcome))
        /\ UNCHANGED <<toolVars, sharedVars, log, verifier>>

Next == Call \/ UpstreamResponse \/ ConnectFailure \/ ReadFailure \/ Timeout

Spec == Init /\ [][Next]_vars

\* An attempt in progress ends: with a response, with a failure, or at the
\* latest when the timeout of the request runs out
AttemptEnds == UpstreamResponse \/ ConnectFailure \/ ReadFailure \/ Timeout

SpecLive == Spec /\ WF_vars(AttemptEnds)

\* Every call of WideCalls as the first call in every environment, the upstream
\* answering 200 at once
\* the environments the process can be given while it runs
ChangedEnvs ==
    {[TESLA_BASE_URL |-> b, TESLA_BYPASS |-> y] :
        b \in {Unset, [set |-> TRUE, val |-> Host \o <<"/">>]},
        y \in {[set |-> FALSE, val |-> ""], [set |-> TRUE, val |-> "tok"]}}

\* TESLA_BASE_URL or TESLA_BYPASS is set, changed or unset in os.environ, at
\* any moment: between two calls or while a call is in flight
EnvChange ==
    /\ env' \in ChangedEnvs \ {env}
    /\ UNCHANGED <<pc, call, request, requestCalls, retries, attempts, response,
                   clientResult, opResult, callContext, toolVars, sharedVars, log, verifier>>

InitWide ==
    /\ env \in Envs
    /\ pc = "idle"
    /\ call = MkCall("none", <<>>, <<>>, NoOpts)
    /\ request = BuildRequest("GET", <<>>, TeslaRequestContext("", <<>>), PyNone, PyNone)
    /\ requestCalls = 0
    /\ retries = BuildRetry
    /\ attempts = 0
    /\ response = NoResponse
    /\ clientResult = Pending
    /\ opResult = Pending
    /\ callContext = NoContext
    /\ inbound = NoInbound
    /\ toolResult = ToolPending
    /\ threads = [t \in Threads |-> IdleThread]
    /\ cookies = EmptyJar
    /\ log = <<>>
    /\ verifier = IdleVerifier

CallWide ==
    /\ pc = "idle"
    /\ \E c \in WideCalls : OperationCall(c)
    /\ UNCHANGED <<toolVars, sharedVars, verifier>>

UpstreamOK ==
    /\ \E body \in {BodyEmpty, BodyWrapped} : Attempt(HttpResponse(200, FALSE, body))
    /\ UNCHANGED <<toolVars, sharedVars, log, verifier>>

NextWide == CallWide \/ UpstreamOK

SpecWide == InitWide /\ [][NextWide]_vars

\* the params a caller of TeslaClient.request gives: none, empty, a key, a
\* bypass value of its own, and both
GivenParams ==
    {PyNone, EmptyDict, PyDict([vin |-> PyStr("x")]), PyDict([bypass |-> PyStr("mine")]),
     PyDict([bypass |-> PyStr("mine"), vin |-> PyStr("x")])}

\* TeslaClient.request(method, "/api/1/products", context=from_env("T"), params=params)
ClientRequest(method, params) ==
    /\ pc \in {"idle", "done"}
    /\ LET endpoint == <<"/", "api", "/", "1", "/", "products">>
           context == from_env("T")
       IN  /\ request' = BuildRequest(method, endpoint, context, params, PyNone)
           /\ callContext' = context
           /\ log' = <<DebugRecord(method, context.base_url \o endpoint)>>
    /\ call' = MkCall("request", <<>>, <<>>, [method |-> PyStr(method), params |-> params])
    /\ requestCalls' = 1
    /\ retries' = BuildRetry
    /\ attempts' = 0
    /\ response' = NoResponse
    /\ clientResult' = Pending
    /\ opResult' = Pending
    /\ pc' = "sending"
    /\ UNCHANGED <<env, toolVars, sharedVars, verifier>>

CallClient == \E method \in {"GET", "POST", "DELETE"}, params \in GivenParams : ClientRequest(method, params)

NextClient == CallClient \/ UpstreamOK

SpecClient == InitWide /\ [][NextClient]_vars

\* calls answered at once, under an environment that changes
NextEnv == Call \/ UpstreamOK \/ EnvChange

SpecEnv == Init /\ [][NextEnv]_vars

----------------------------------------------------------------------------
(* The Tool Adapter (app.py): a tool takes the bearer token from the       *)
(* Authorization header of the inbound MCP request and runs one operation  *)
(* through _execute.  A header value is a token sequence whose first token *)
(* is its first 7 characters when these are a scheme and a space.          *)

AuthHeader(value) == [present |-> TRUE, value |-> value]

\* the Authorization headers of inbound requests: none, a bearer token, the
\* prefix with nothing after it, a token that is a blank, another scheme, the
\* prefix in lower case
AuthHeaders ==
    {NoInbound, AuthHeader(<<"Bearer ", "T">>), AuthHeader(<<"Bearer ">>),
     AuthHeader(<<"Bearer ", " ">>), AuthHeader(<<"Basic ", "dXNlcg==">>),
     AuthHeader(<<"bearer ", "T">>)}

\* what a tool hands back: kind, exception, value, and the text of the
\* RuntimeError the adapter raised, as tokens
ToolReturn(v) == [kind |-> "return", exc |-> "", value |-> v, text |-> <<>>]

RuntimeError(text) == [kind |-> "raise", exc |-> "RuntimeError", value |-> PyNone, text |-> text]

\* mutation of _extract_bearer_token: any scheme passes for a bearer token
_extract_bearer_token_any_scheme(header) ==
    LET auth_header == IF header.present THEN header.value ELSE <<>>
    IN  IF auth_header # <<>>
        THEN ToolReturn(PyStr(IF Len(auth_header) >= 2 THEN auth_header[2] ELSE ""))
        ELSE RuntimeError(<<"No Authorization header found in MCP request">>)

\* _extract_bearer_token: auth_header[7:] of a header that starts with
\* "Bearer ", a RuntimeError otherwise (a missing header reads as "")
_extract_bearer_token(header) ==
    LET auth_header == IF header.present THEN header.value ELSE <<>>
    IN  IF auth_header # <<>> /\ auth_header[1] = "Bearer "
        THEN ToolReturn(PyStr(IF Len(auth_header) >= 2 THEN auth_header[2] ELSE ""))
        ELSE RuntimeError(<<"No Authorization header found in MCP request">>)

\* str(exc) of a TeslaAPIError: its message (in the model a str, or None)
Str(v) == IF v.t = "str" THEN v.s ELSE IF v.t = "int" THEN ToString(v.n) ELSE "None"

\* mutation of _execute: the status code is left out of the message
_execute_no_status(res) ==
    IF res.kind = "raise" /\ res.exc = "TeslaAPIError"
    THEN RuntimeError(<<"Tesla API error", ": ", Str(res.message)>>)
    ELSE [kind |-> res.kind, exc |-> res.exc, value |-> res.value, text |-> <<>>]

\* mutation of _execute: every exception of the handler becomes a RuntimeError
_execute_catch_all(res) ==
    IF res.kind = "raise"
    THEN LET status == IF Truthy(res.status_code)
                       THEN <<" (status ", Str(res.status_code), ")">> ELSE <<>>
         IN  RuntimeError(<<"Tesla API error">> \o status \o <<": ", Str(res.message)>>)
    ELSE [kind |-> res.kind, exc |-> res.exc, value |-> res.value, text |-> <<>>]

\* _execute on the outcome of the handler: a TeslaAPIError becomes a
\* RuntimeError, a value or any other exception passes
_execute(res) ==
    IF res.kind = "raise" /\ res.exc = "TeslaAPIError"
    THEN LET status == IF Truthy(res.status_code)
                       THEN <<" (status ", Str(res.status_code), ")">> ELSE <<>>
         IN  RuntimeError(<<"Tesla API error">> \o status \o <<": ", Str(res.message)>>)
    ELSE [kind |-> res.kind, exc |-> res.exc, value |-> res.value, text |-> <<>>]

\* logging.getLogger("tesla_mcp").error("Tesla API error: %s", exc) of _execute
ErrorRecord(res) ==
    [logger |-> "tesla_mcp", level |-> "ERROR",
     text |-> <<"Tesla API error: ", Str(res.message)>>]

\* the tools followed: door_lock, list_vehicles_and_energy_sites, get_site_info
ToolCalls ==
    {MkCall("door_lock", <<"VIN1">>, <<>>, NoOpts),
     MkCall("products", <<>>, <<>>, NoOpts),
     MkCall("site_info", <<"VIN1">>, <<>>, NoOpts)}

\* A tool is called on an inbound request: without a bearer token the tool
\* raises before any operation is called; otherwise it calls its operation
ToolCall(header, c) ==
    /\ pc \in {"idle", "done"}
    /\ inbound' = header
    /\ LET token == _extract_bearer_token(header)
       IN  IF token.kind = "raise"
           THEN /\ toolResult' = token
                /\ pc' = "done"
                /\ call' = MkCall("none", <<>>, <<>>, NoOpts)
                /\ request' = BuildRequest("GET", <<>>, NoContext, PyNone, PyNone)
                /\ callContext' = NoContext
                /\ requestCalls' = 0
                /\ retries' = BuildRetry
                /\ attempts' = 0
                /\ response' = NoResponse
                /\ clientResult' = Pending
                /\ opResult' = Pending
                /\ log' = <<>>
                /\ UNCHANGED env
           ELSE /\ OperationCall([c EXCEPT !.bearer_token = token.value.s])
                /\ toolResult' = ToolPending
    /\ UNCHANGED <<sharedVars, verifier>>

\* One HTTP attempt of the tool's operation; when the operation ends, _execute
\* hands its outcome on
ToolAttempt(outcome) ==
    /\ Attempt(outcome)
    /\ toolResult' = IF pc' = "done" THEN _execute(opResult') ELSE ToolPending
    /\ log' = IF pc' = "done" /\ opResult'.exc = "TeslaAPIError"
              THEN Append(log, ErrorRecord(opResult'))
              ELSE log
    /\ UNCHANGED <<inbound, sharedVars, verifier>>

ToolInvoke == \E header \in AuthHeaders, c \in ToolCalls : ToolCall(header, c)

ToolUpstream == \E r \in Responses : ToolAttempt(r)

ToolFailure == ToolAttempt(ConnectError)

NextTool == ToolInvoke \/ ToolUpstream \/ ToolFailure

SpecTool == Init /\ [][NextTool]_vars

----------------------------------------------------------------------------
(* Concurrent callers of the one TeslaClient (app.py: client).  Each call  *)
(* runs TeslaClient.request on its own arguments and locals; the callers   *)
(* share the client's requests.Session.  The session prepares a request    *)
(* once, adding the Cookie header from its jar, and stores the cookies of   *)
(* the response it returns in the jar; a response the retry loop discards  *)
(* and a failed call leave the jar alone.  A cookie is named in the model  *)
(* by the bearer token of the call whose response set it.                  *)

\* the bearer token caller t presents: every caller is another user
TokenOf(t) == IF t = 1 THEN "T1" ELSE "T2"

\* a Fleet API call and a TeslaMate call
SharedCalls ==
    {MkCall("door_lock", <<"VIN1">>, <<>>, NoOpts), MkCall("get_car", <<"1">>, Host, NoOpts)}

\* a response the session returns and one it retries
SharedOutcomes == {HttpResponse(200, FALSE, BodyWrapped), HttpResponse(500, FALSE, BodyEmpty)}

\* the host of a URL: its token after the scheme's "//"
HostOf(url) == url[4]

\* Caller t calls operation c: the operation invokes TeslaClient.request, and
\* the session prepares the request with the cookie its jar holds for the host
ThreadCall(t, c) ==
    /\ threads[t].pc \in {"idle", "done"}
    /\ LET own == [c EXCEPT !.bearer_token = TokenOf(t)]
           inv == Operation(own)
           req == BuildRequest(inv.method, inv.endpoint, inv.context, inv.params, inv.json)
       IN  threads' = [threads EXCEPT ![t] =
                          [pc |-> "sending", call |-> own, context |-> inv.context,
                           request |-> req, cookie |-> cookies[HostOf(req.url)],
                           retries |-> BuildRetry, attempts |-> 0, result |-> Pending]]
    /\ UNCHANGED <<env, pc, call, request, requestCalls, retries, attempts, response,
                   clientResult, opResult, callContext, toolVars, cookies, log, verifier>>

\* One HTTP attempt of caller t's call ends with `outcome`; set_cookie tells
\* whether a response carries a Set-Cookie header
ThreadAttempt(t, outcome, set_cookie) ==
    /\ threads[t].pc = "sending"
    /\ LET th == threads[t]
           step == SessionRequest(th.retries, th.request.method, outcome)
           returned == /\ outcome.kind = "response"
                       /\ ~is_retry(th.retries, th.request.method, outcome.status,
                                    outcome.retry_after)
       IN  /\ threads' = [threads EXCEPT ![t] =
                             [th EXCEPT !.retries = step.retries,
                                        !.attempts = th.attempts + 1,
                                        !.pc = IF step.final THEN "done" ELSE "sending",
                                        !.result = IF step.final
                                                   THEN OperationResult(th.call, step.result)
                                                   ELSE Pending]]
           /\ cookies' = IF returned /\ set_cookie
                         THEN [cookies EXCEPT ![HostOf(th.request.url)] = th.call.bearer_token]
                         ELSE cookies
    /\ UNCHANGED <<env, pc, call, request, requestCalls, retries, attempts, response,
                   clientResult, opResult, callContext, toolVars, log, verifier>>

SharedCall == \E t \in Threads, c \in SharedCalls : ThreadCall(t, c)

SharedAttempt ==
    \E t \in Threads, outcome \in SharedOutcomes, set_cookie \in BOOLEAN :
        ThreadAttempt(t, outcome, set_cookie)

NextShared == SharedCall \/ SharedAttempt

SpecShared == Init /\ [][NextShared]_vars

----------------------------------------------------------------------------
(* Token verification: TeslaFleetProvider and TeslaFleetTokenVerifier *)

BodyNoUser == "{\"response\": null}"
BodyUser == "{\"response\": {\"email\": \"a@b.c\", \"full_name\": \"A\"}}"
BodyScopes == "{\"email\": \"a@b.c\", \"scopes\": [\"openid\", \"vehicle_cmds\"]}"
BodyOneScope == "{\"response\": {\"id\": 7, \"scopes\": [\"openid\"]}}"
BodyScopeText == "{\"response\": {\"uid\": \"u1\", \"scope\": \"openid vehicle_cmds\"}}"
BodyAllScopes == "{\"response\": {\"user_id\": \"u1\", \"scope\": \"openid offline_access user_data vehicle_device_data vehicle_cmds\"}}"
BodyNoScopes == "{\"response\": {\"user_id\": \"u1\", \"scopes\": []}}"
BodyBlankScopes == "{\"response\": {\"scopes\": [\"\", \"openid\"], \"scope\": \"vehicle_cmds\"}}"

\* response.json() of the verifier's response: the bodies above, and those of JsonDecode
HttpxJson(body) ==
    CASE body = BodyNoUser -> [ok |-> TRUE, value |-> PyDict([response |-> PyNone])]
      [] body = BodyUser ->
            [ok |-> TRUE,
             value |-> PyDict([response |->
                          PyDict([email |-> PyStr("a@b.c"), full_name |-> PyStr("A")])])]
      [] body = BodyScopes ->
            [ok |-> TRUE,
             value |-> PyDict([email |-> PyStr("a@b.c"),
                               scopes |-> PyList(<<PyStr("openid"), PyStr("vehicle_cmds")>>)])]
      [] body = BodyOneScope ->
            [ok |-> TRUE,
             value |-> PyDict([response |->
                          PyDict([id |-> PyInt(7), scopes |-> PyList(<<PyStr("openid")>>)])])]
      [] body = BodyScopeText ->
            [ok |-> TRUE,
             value |-> PyDict([response |->
                          PyDict([uid |-> PyStr("u1"),
                                  scope |-> PyStr("openid vehicle_cmds")])])]
      [] body = BodyAllScopes ->
            [ok |-> TRUE,
             value |-> PyDict([response |->
                          PyDict([user_id |-> PyStr("u1"),
                                  scope |-> PyStr("openid offline_access user_data vehicle_device_data vehicle_cmds")])])]
      [] body = BodyNoScopes ->
            [ok |-> TRUE,
             value |-> PyDict([response |->
                          PyDict([user_id |-> PyStr("u1"), scopes |-> PyList(<<>>)])])]
      [] body = BodyBlankScopes ->
            [ok |-> TRUE,
             value |-> PyDict([response |->
                          PyDict([scopes |-> PyList(<<PyStr(""), PyStr("openid")>>),
                                  scope |-> PyStr("vehicle_cmds")])])]
      [] OTHER -> JsonDecode(body)

\* fastmcp's parse_scopes on a text: its words, split at blanks and commas
parse_scopes(text) ==
    CASE text = "openid vehicle_cmds" -> <<"openid", "vehicle_cmds">>
      [] text = "openid offline_access user_data vehicle_device_data vehicle_cmds" ->
            <<"openid", "offline_access", "user_data", "vehicle_device_data", "vehicle_cmds">>
      [] text = "" -> <<>>
      [] OTHER -> <<text>>

\* [str(scope) for scope in raw_scopes if scope]
ScopeList(raw_scopes) ==
    LET kept == SelectSeq(raw_scopes.elems, Truthy)
    IN  [i \in 1..Len(kept) |-> Str(kept[i])]

\* set(seq)
Set(seq) == {seq[i] : i \in DOMAIN seq}

AccessToken(token, client_id, scopes, resource_owner, claims, issuer) ==
    [none |-> FALSE, token |-> token, client_id |-> client_id, scopes |-> scopes,
     expires_at |-> PyNone, resource_owner |-> resource_owner, claims |-> claims,
     issuer |-> issuer]

VerifyReturn(access_token) == [kind |-> "return", exc |-> "", token |-> access_token]

VerifyRaise(exc) == [kind |-> "raise", exc |-> exc, token |-> NoAccessToken]

\* the scopes verify_token gives the token: those the user data reports or,
\* when it reports none, the required ones
token_scopes(self, user_data) ==
    LET raw_scopes == Or(DictGet(user_data, "scopes"), DictGet(user_data, "scope"))
        reported == IF raw_scopes.t = "list" THEN ScopeList(raw_scopes)
                    ELSE IF raw_scopes.t = "str" THEN parse_scopes(raw_scopes.s)
                    ELSE <<>>
    IN  IF reported = <<>> /\ self.required_scopes # <<>> THEN self.required_scopes
        ELSE reported

\* the claims of the token, the None values dropped; the issuer claim is kept
\* apart, as the URL it is
token_claims(user_data, user_id) ==
    LET all == [sub |-> Or(DictGet(user_data, "user_id"), PyStr(user_id)),
                email |-> DictGet(user_data, "email"),
                name |-> Or(DictGet(user_data, "full_name"), DictGet(user_data, "name")),
                user |-> user_data]
    IN  PyDict([k \in {x \in DOMAIN all : all[x] # PyNone} |-> all[k]])

\* mutation of verify_token: the required scopes are not checked
verify_token_unchecked(self, token, outcome) ==
    IF outcome.kind # "response" THEN VerifyReturn(NoAccessToken)
    ELSE IF outcome.status # 200 THEN VerifyReturn(NoAccessToken)
    ELSE IF ~HttpxJson(outcome.body).ok THEN VerifyReturn(NoAccessToken)
    ELSE LET payload == HttpxJson(outcome.body).value
         IN  IF payload.t # "dict" THEN VerifyRaise("AttributeError")
             ELSE LET user_data == IF HasKey(payload, "response")
                                   THEN DictGet(payload, "response") ELSE payload
                  IN  IF user_data.t # "dict" THEN VerifyReturn(NoAccessToken)
                      ELSE LET scopes == token_scopes(self, user_data)
                               user_id == Str(Or(Or(Or(Or(DictGet(user_data, "user_id"),
                                                          DictGet(user_data, "id")),
                                                       DictGet(user_data, "uid")),
                                                    DictGet(user_data, "email")),
                                                 PyStr("unknown")))
                           IN  VerifyReturn(AccessToken(token, user_id, scopes,
                                                        DictGet(user_data, "email"),
                                                        token_claims(user_data, user_id),
                                                        self.auth_base_url))

\* verify_token on the outcome of its GET: a request error of httpx, a status
\* other than 200 and an undecodable body give None; payload.get on a body that
\* is no object raises AttributeError outside the try
verify_token(self, token, outcome) ==
    IF outcome.kind # "response" THEN VerifyReturn(NoAccessToken)
    ELSE IF outcome.status # 200 THEN VerifyReturn(NoAccessToken)
    ELSE IF ~HttpxJson(outcome.body).ok THEN VerifyReturn(NoAccessToken)
    ELSE LET payload == HttpxJson(outcome.body).value
         IN  IF payload.t # "dict" THEN VerifyRaise("AttributeError")
             ELSE LET user_data == IF HasKey(payload, "response")
                                   THEN DictGet(payload, "response") ELSE payload
                  IN  IF user_data.t # "dict" THEN VerifyReturn(NoAccessToken)
                      ELSE LET scopes == token_scopes(self, user_data)
                               user_id == Str(Or(Or(Or(Or(DictGet(user_data, "user_id"),
                                                          DictGet(user_data, "id")),
                                                       DictGet(user_data, "uid")),
                                                    DictGet(user_data, "email")),
                                                 PyStr("unknown")))
                           IN  IF /\ self.required_scopes # <<>>
                                  /\ Set(scopes) # {}
                                  /\ ~(Set(self.required_scopes) \subseteq Set(scopes))
                               THEN VerifyReturn(NoAccessToken)
                               ELSE VerifyReturn(AccessToken(token, user_id, scopes,
                                                             DictGet(user_data, "email"),
                                                             token_claims(user_data, user_id),
                                                             self.auth_base_url))

\* the scopes TeslaFleetProvider requires when none are configured
DefaultScopes ==
    <<"openid", "offline_access", "user_data", "vehicle_device_data", "vehicle_cmds">>

\* the verifier TeslaFleetProvider.__init__ builds from its settings (with
\* api_base_url not configured)
TeslaFleetProvider(required_scopes) ==
    LET from_environment == GetEnv("TESLA_BASE_URL", <<>>)
        api_base == IF from_environment # <<>> THEN from_environment
                    ELSE DEFAULT_TESLA_BASE_URL
        required_scopes_final == IF required_scopes # <<>> THEN required_scopes
                                 ELSE DefaultScopes
    IN  TeslaFleetTokenVerifier(api_base, <<"https:", "/", "/", "auth.tesla.com">>,
                                required_scopes_final, 15)

\* the required scopes configured: none, one, two
RequiredChoices == {<<>>, <<"openid">>, <<"openid", "vehicle_cmds">>}

\* the tokens presented
Tokens == {"T", "U"}

\* the bodies /api/1/users/me answers with
VerifyBodies ==
    {BodyEmpty, BodyPDF, BodyEmptyList, BodyList, BodyNull, BodyPlain, BodyNoUser, BodyUser,
     BodyScopes, BodyOneScope, BodyScopeText, BodyAllScopes, BodyNoScopes, BodyBlankScopes}

InitVerify ==
    /\ env \in NarrowEnvs
    /\ pc = "idle"
    /\ call = MkCall("none", <<>>, <<>>, NoOpts)
    /\ request = BuildRequest("GET", <<>>, TeslaRequestContext("", <<>>), PyNone, PyNone)
    /\ requestCalls = 0
    /\ retries = BuildRetry
    /\ attempts = 0
    /\ response = NoResponse
    /\ clientResult = Pending
    /\ opResult = Pending
    /\ callContext = NoContext
    /\ inbound = NoInbound
    /\ toolResult = ToolPending
    /\ threads = [t \in Threads |-> IdleThread]
    /\ cookies = EmptyJar
    /\ log = <<>>
    /\ verifier \in {TeslaFleetProvider(required) : required \in RequiredChoices}
                        \cup {TeslaFleetTokenVerifier(Host \o <<"/">>, <<>>, required, 10) :
                                required \in RequiredChoices}

\* verify_token(token) sends GET {api_base_url}/api/1/users/me
VerifyCall(token) ==
    /\ verifier.pc \in {"idle", "done"}
    /\ verifier' = [verifier EXCEPT
                      !.pc = "waiting",
                      !.token = token,
                      !.sent = [method |-> "GET",
                                url |-> verifier.api_base_url
                                          \o <<"/", "api", "/", "1", "/", "users", "/", "me">>,
                                timeout |-> verifier.timeout_seconds,
                                headers |-> [Authorization |-> <<"Bearer ", token>>,
                                             Accept |-> "application/json"]],
                      !.outcome = NoResponse,
                      !.result = VerifyPending]
    /\ UNCHANGED <<env, pc, call, request, requestCalls, retries, attempts, response,
                   clientResult, opResult, callContext, toolVars, sharedVars, log>>

\* the GET ends with `outcome` and verify_token with it
VerifyAnswer(outcome) ==
    /\ verifier.pc = "waiting"
    /\ verifier' = [verifier EXCEPT
                      !.pc = "done",
                      !.outcome = outcome,
                      !.result = verify_token(verifier, verifier.token, outcome)]
    /\ UNCHANGED <<env, pc, call, request, requestCalls, retries, attempts, response,
                   clientResult, opResult, callContext, toolVars, sharedVars, log>>

Verify == \E token \in Tokens : VerifyCall(token)

VerifyResponse ==
    \E status \in {200, 401, 500}, body \in VerifyBodies :
        VerifyAnswer(HttpResponse(status, FALSE, body))

\* httpx.RequestError: no connection, or the timeout ran out
VerifyRequestError == \E outcome \in {ConnectError, ReadTimeout} : VerifyAnswer(outcome)

NextVerify == Verify \/ VerifyResponse \/ VerifyRequestError

SpecVerify == InitVerify /\ [][NextVerify]_vars

----------------------------------------------------------------------------
(* Properties *)

Is2xx(status) == 200 <= status /\ status < 300

Finished == pc = "done"

\* the latest attempt got an HTTP response
GotResponse == attempts >= 1 /\ response.kind = "response"

\* the session tries again, within the budget of 3 additional attempts
Retrying == pc = "sending" /\ attempts <= 3

\* the budget of 1 + 3 attempts is used up and an error has surfaced
GaveUp == Finished /\ attempts = 4 /\ clientResult.kind = "raise"

\* the error has surfaced with the latest response
Surfaced == Finished /\ clientResult.kind = "raise"

C2_Claim ==
    (Finished /\ GotResponse /\ ~Is2xx(response.status)) =>
        /\ clientResult.kind = "raise"
        /\ clientResult.exc = "TeslaAPIError"
        /\ clientResult.status_code = PyInt(response.status)

\* every attempt of the call failed at connection level
AllAttemptsConnectionLevel ==
    /\ attempts >= 1
    /\ (max_retries - retries.connect) + (max_retries - retries.read) = attempts

\* C3 as claimed: when every attempt fails at connection level and the retry
\* budget is exhausted, the call ends by raising a TeslaAPIError without a
\* status code, and no other kind of error reaches the caller.
C3_Claim ==
    (Finished /\ AllAttemptsConnectionLevel) =>
        /\ clientResult.kind = "raise"
        /\ clientResult.exc = "TeslaAPIError"
        /\ clientResult.status_code = PyNone
        /\ opResult.exc = "TeslaAPIError"

\* the body decodes as a JSON object that has an `error` field
HasErrorField(body) ==
    JsonDecode(body).ok /\ HasKey(JsonDecode(body).value, "error")

ErrorField(body) == JsonDecode(body).value.items["error"]

GenericMessage(status) == PyStr(HTTPErrorStr(status))

\* _handle_response raised for the latest response
ErrorMapped == Finished /\ GotResponse /\ clientResult.exc = "TeslaAPIError"

\* C4 as claimed: the message of the TeslaAPIError is the value of the body's
\* `error` field whenever the body is a JSON object with such a field, whatever
\* the value; otherwise it is the generic HTTP status description.
C4_Claim ==
    ErrorMapped =>
        IF HasErrorField(response.body)
        THEN clientResult.message = ErrorField(response.body)
        ELSE clientResult.message = GenericMessage(response.status)

\* C4 amended: the message is the value of the `error` field when the body is a
\* JSON object with an `error` field whose value is not empty (not falsy); in
\* every other case, an empty `error` value included, it is the generic HTTP
\* status description.
C4_Amended ==
    ErrorMapped =>
        IF HasErrorField(response.body) /\ ErrorField(response.body) # PyStr("")
        THEN clientResult.message = ErrorField(response.body)
        ELSE clientResult.message = GenericMessage(response.status)

C4_Witness ==
    /\ ErrorMapped
    /\ response.status = 401 /\ response.body = BodyError
    /\ clientResult.message = PyStr("invalid bearer token")
    /\ attempts = 1

\* C5 as claimed: a vehicle command whose upstream outcome is a 2xx returns the
\* value under `response` when the client's result is a mapping with that key,
\* and returns any other result (mapping without the key, None, text, list)
\* unchanged, raising nothing.
C5_Claim ==
    (Finished /\ call.op \in CommandOps /\ clientResult.kind = "return") =>
        IF HasKey(clientResult.value, "response")
        THEN opResult = Return(clientResult.value.items["response"])
        ELSE opResult = clientResult


\* the key under which an operation sends an optional parameter
KeyOf(param) ==
    CASE param = "page_size"  -> "pageSize"
      [] param = "start_time" -> "startTime"
      [] param = "end_time"   -> "endTime"
      [] param = "sort_by"    -> "sortBy"
      [] param = "sort_order" -> "sortOrder"
      [] param = "start_date" -> "startDate"
      [] param = "end_date"   -> "endDate"
      [] OTHER                -> param

\* an operation has been called and has handed its request to the client
Requested == pc # "idle"

\* C6: for every optional parameter the caller leaves unset (None), neither the
\* query mapping nor the JSON body of the request holds that parameter's key
\* (so the key is there neither with a null nor with an empty-string value).
C6_OmitsUnset ==
    Requested =>
        \A param \in DOMAIN call.opts :
            call.opts[param] = PyNone =>
                /\ ~HasKey(request.params, KeyOf(param))
                /\ ~HasKey(request.json, KeyOf(param))

C6_Witness ==
    /\ Finished
    /\ call.op = "charging_history"
    /\ call.opts["vin"] = PyNone /\ call.opts["page"] = PyInt(0)
    /\ call.opts["sort_by"] = PyStr("x") /\ call.opts["page_size"] = PyNone
    /\ DOMAIN request.params.items \cap {"page", "sortBy"} = {"page", "sortBy"}

\* the path an operation targets (the path conventions of the outbound interface)
TargetPath(c) ==
    CASE c.op \in CommandOps ->
            <<"/", "api", "/", "1", "/", "vehicles", "/">> \o c.id
                \o <<"/", "command", "/", c.op>>
      [] c.op = "get_vehicle" -> <<"/", "api", "/", "1", "/", "vehicles", "/">> \o c.id
      [] c.op = "remove_driver" ->
            <<"/", "api", "/", "1", "/", "vehicles", "/">> \o c.id \o <<"/", "drivers">>
      [] c.op = "products" -> <<"/", "api", "/", "1", "/", "products">>
      [] c.op \in {"site_info", "grid_import_export"} ->
            <<"/", "api", "/", "1", "/", "energy_sites", "/">> \o c.id \o <<"/", c.op>>
      [] c.op = "charging_history" ->
            <<"/", "api", "/", "1", "/", "dx", "/", "charging", "/", "history">>
      [] c.op = "charging_invoice" ->
            <<"/", "api", "/", "1", "/", "dx", "/", "charging", "/", "invoice", "/">> \o c.id
      [] c.op = "get_car" -> <<"/", "api", "/", "v1", "/", "cars", "/">> \o c.id
      [] c.op = "get_car_charges" ->
            <<"/", "api", "/", "v1", "/", "cars", "/">> \o c.id \o <<"/", "charges">>

TeslaMateOps == {"get_car", "get_car_charges"}

\* the base URL given by the environment or, for TeslaMate, by the caller
GivenBase(c) ==
    IF c.op \in TeslaMateOps THEN c.endpoint
    ELSE IF env.TESLA_BASE_URL.set THEN env.TESLA_BASE_URL.val
    ELSE <<"https:", "/", "/", "api.myteslamate.com">>

\* s without its trailing slashes
Stripped(s) ==
    LET keep == {n \in 0..Len(s) : n = 0 \/ s[n] # "/"}
        last == CHOOSE n \in keep : \A m \in keep : m <= n
    IN  SubSeq(s, 1, last)

\* the base URL of the call's context
ContextBase(c) == Stripped(GivenBase(c))

\* no two slashes in a row after the scheme (the scheme's own "//" are tokens 2, 3)
NoDoubleSlash(url) ==
    \A i \in 4..(Len(url) - 1) : ~(url[i] = "/" /\ url[i + 1] = "/")

NoTrailingSlashTwice(url) ==
    ~(Len(url) >= 5 /\ url[Len(url)] = "/" /\ url[Len(url) - 1] = "/")

\* the operation puts an identifier into its path
HasIdentifier(c) == c.op \notin {"products", "charging_history"}

\* the identifier is not empty and holds no slash
PlainIdentifier(c) == c.id # <<>> /\ \A i \in DOMAIN c.id : c.id[i] # "/"

\* C7 as claimed: the URL of the outbound request is B + P and has no double
\* slash after the scheme and no duplicated trailing slash, for every
\* identifier (an empty one included) and every base URL.
C7_Claim ==
    Requested =>
        /\ request.url = ContextBase(call) \o TargetPath(call)
        /\ NoDoubleSlash(request.url)
        /\ NoTrailingSlashTwice(request.url)

\* C7 amended: the URL of the outbound request is B + P for every identifier
\* and every base URL; it has no double slash after the scheme and no
\* duplicated trailing slash whenever the identifier is not empty and holds no
\* slash and the base URL, its trailing slashes apart, has no double slash
\* after its scheme.
C7_Amended ==
    Requested =>
        /\ request.url = ContextBase(call) \o TargetPath(call)
        /\ ((HasIdentifier(call) => PlainIdentifier(call))
                /\ NoDoubleSlash(ContextBase(call)))
              => NoDoubleSlash(request.url) /\ NoTrailingSlashTwice(request.url)

C7_Witness ==
    /\ Finished
    /\ call.op = "door_lock" /\ call.id = <<"VIN1">>
    /\ env.TESLA_BASE_URL.set
    /\ env.TESLA_BASE_URL.val = <<"https:", "/", "/", "tesla.example", "/", "/">>
    /\ request.url = <<"https:", "/", "/", "tesla.example", "/", "api", "/", "1", "/",
                       "vehicles", "/", "VIN1", "/", "command", "/", "door_lock">>

\* C8: a 2xx response with an empty body gives None, one whose body decodes as
\* JSON gives the decoded value, and one whose body does not decode gives the
\* body's text; none of them gives an error.
C8_ResultMapping ==
    (Finished /\ GotResponse /\ Is2xx(response.status)) =>
        IF response.body = "" THEN clientResult = Return(PyNone)
        ELSE IF JsonDecode(response.body).ok
             THEN clientResult = Return(JsonDecode(response.body).value)
             ELSE clientResult = Return(PyStr(response.body))

C8_Witness ==
    /\ Finished
    /\ call.op = "charging_invoice"
    /\ response.status = 200 /\ response.body = BodyPDF
    /\ opResult = Return(PyStr("%PDF-1.4"))

\* C9: when the client raised an error for a call, the operation ends by
\* raising that very error: it returns no value and raises no other error.
C9_Propagates ==
    (Finished /\ clientResult.kind = "raise") => opResult = clientResult

C9_Witness ==
    /\ Finished
    /\ call.op \in CommandOps
    /\ clientResult.kind = "raise" /\ clientResult.exc = "TeslaAPIError"
    /\ opResult.status_code = PyInt(401)

\* C10: every operation call invokes the client's request exactly once, and no
\* HTTP attempt is made for a call once the operation has returned or raised.
C10_OneRequestNoLateAttempt ==
    /\ [](Requested => requestCalls = 1)
    /\ [][Finished => attempts' <= attempts]_vars

C10_Witness ==
    /\ Finished /\ attempts = 4 /\ requestCalls = 1
    /\ call.op = "get_car"

\* every caller's request carries the bearer token and the base URL of the
\* caller's own call
OwnCredentials ==
    \A t \in Threads :
        threads[t].pc # "idle" =>
            LET th == threads[t]
            IN  /\ th.call.bearer_token = TokenOf(t)
                /\ th.request.headers.Authorization = <<"Bearer ", th.call.bearer_token>>
                /\ th.request.url = ContextBase(th.call) \o TargetPath(th.call)

\* no caller's request carries anything another call left in the client
NothingFromOtherCalls ==
    \A t \in Threads : threads[t].pc # "idle" => threads[t].cookie = NoCookie

\* C11 as claimed: in every interleaving of calls that share the client, each
\* outbound request carries the bearer token and the base URL of the call
\* that issued it, and nothing a call sends depends on another call: the
\* calls share no mutable state but the connection pool.
C11_Claim == OwnCredentials /\ NothingFromOtherCalls

\* TESLA_BYPASS is set in the environment
BypassSet == env.TESLA_BYPASS.set

\* the request carries the query parameter bypass=<value of TESLA_BYPASS>
CarriesBypass ==
    /\ HasKey(request.params, "bypass")
    /\ request.params.items["bypass"] = PyStr(env.TESLA_BYPASS.val)

\* C12 as claimed: whenever TESLA_BYPASS is set, whatever its value, the
\* outbound request of every operation and method carries bypass=<value>.
C12_Claim == (Requested /\ BypassSet) => CarriesBypass

\* C12 amended: the outbound request of every operation and method carries
\* bypass=<value> whenever TESLA_BYPASS is set to a value that is not empty;
\* when the variable is unset or set to the empty string the request carries
\* no bypass parameter at all.
C12_Amended ==
    Requested =>
        IF BypassSet /\ env.TESLA_BYPASS.val # ""
        THEN CarriesBypass
        ELSE ~HasKey(request.params, "bypass")

C12_Witness ==
    /\ Finished
    /\ request.method = "DELETE" /\ call.opts["share_user_id"] = PyNone
    /\ env.TESLA_BYPASS.val = "tok"
    /\ request.params = PyDict([bypass |-> PyStr("tok")])

EndsWithSlash(s) == s # <<>> /\ s[Len(s)] = "/"

\* C13: the context a call hands to TeslaClient.request, built by from_env or
\* by _get_teslamate_context, has a base_url that does not end with a slash
\* and holds the caller's token, and no step between the call and its end
\* changes the context.
C13_ContextInvariant ==
    /\ [](Requested => /\ ~EndsWithSlash(callContext.base_url)
                       /\ callContext.bearer_token = call.bearer_token)
    /\ [][InFlight => callContext' = callContext]_vars

C13_Witness ==
    /\ Finished
    /\ call.op = "get_car"
    /\ call.endpoint = <<"https:", "/", "/", "tesla.example", "/", "/">>
    /\ callContext.base_url = <<"https:", "/", "/", "tesla.example">>

\* C15: an operation that is not a vehicle command ends with exactly what the
\* client returned or raised; a payload {"response": X} is returned whole.
C15_Verbatim ==
    (Finished /\ call.op \notin CommandOps) => opResult = clientResult

C15_Witness ==
    /\ Finished
    /\ call.op = "site_info"
    /\ response.status = 200 /\ response.body = BodyWrapped
    /\ HasKey(opResult.value, "response")

\* the optional parameters the caller set
SetOpts(c) == {k \in DOMAIN c.opts : c.opts[k] # PyNone}

\* C16: a vehicle command issues a POST to
\* {base}/api/1/vehicles/{tag}/command/{its own name} with a JSON body that is
\* a mapping: {} when the command has no parameter or none of them is set,
\* the command's fields otherwise; the body is never absent.
C16_CommandRequest ==
    (Requested /\ call.op \in CommandOps) =>
        /\ request.method = "POST"
        /\ request.url = ContextBase(call)
                            \o <<"/", "api", "/", "1", "/", "vehicles", "/">> \o call.id
                            \o <<"/", "command", "/", call.op>>
        /\ request.json.t = "dict"
        /\ (call.op \in {"door_lock", "set_temps"} /\ SetOpts(call) = {})
              => request.json = EmptyDict
        /\ call.op = "set_temps" =>
              /\ DOMAIN request.json.items = SetOpts(call)
              /\ \A k \in SetOpts(call) : request.json.items[k] = call.opts[k]
        /\ call.op = "add_charge_schedule" =>
              {"time", "latitude", "longitude"} \subseteq DOMAIN request.json.items

C16_Witness ==
    /\ Finished
    /\ call.op = "set_temps" /\ call.id = <<"VIN1">>
    /\ SetOpts(call) = {}
    /\ request.method = "POST" /\ request.json = EmptyDict

\* a failure the retry policy is to absorb: a status of the forcelist or a
\* connection-level error
RetryEligible(r) ==
    \/ r.kind \in {"connect_error", "read_error"}
    \/ r.kind = "response" /\ r.status \in {429, 500, 502, 503, 504}

\* the payload of a 2xx response
Payload(r) ==
    IF r.body = "" THEN PyNone
    ELSE IF JsonDecode(r.body).ok THEN JsonDecode(r.body).value
    ELSE PyStr(r.body)

\* C18: a retry-eligible failure (status 429/500/502/503/504 or a
\* connection-level error) within the budget of 3 retries is absorbed: the
\* call goes on; a 2xx response, after any number of such failures, makes the
\* call return that response's payload; a retry-eligible failure reaches the
\* caller as an error only with the 4th attempt, the budget exhausted.
C18_Transparent ==
    /\ (attempts >= 1 /\ attempts <= 3 /\ RetryEligible(response)) => pc = "sending"
    /\ (Finished /\ GotResponse /\ Is2xx(response.status))
          => clientResult = Return(Payload(response))
    /\ (Finished /\ clientResult.kind = "raise" /\ RetryEligible(response))
          => attempts = 4

C18_Witness ==
    /\ Finished /\ attempts = 3
    /\ retries.total = 1 /\ retries.connect = 2 /\ retries.read = 3
    /\ response.status = 200 /\ response.body = BodyPlain
    /\ clientResult = Return(PyDict([result |-> PyBool(TRUE)]))

\* C19: whatever the method (GET, POST, DELETE) and whatever the upstream
\* does, a call makes at most 1 + 3 HTTP attempts, and with the 4th attempt
\* it has ended (returned or raised).
C19_Budget ==
    /\ attempts <= 1 + 3
    /\ attempts = 1 + 3 => Finished
    /\ Finished => attempts >= 1

C19_Witness ==
    /\ Finished /\ attempts = 4
    /\ request.method = "DELETE"
    /\ retries.read = 1 /\ retries.connect = 3
    /\ opResult.kind = "raise"

\* C20: every request goes out with the timeout of 30 seconds; an attempt
\* that times out is retried like any transient failure while the budget of
\* 3 retries lasts and, as the 4th failed attempt, ends the call with an
\* error and no value; a call in flight always ends.
C20_Timeout ==
    /\ [](Requested => request.timeout = 30)
    /\ []((attempts >= 1 /\ response.timed_out) =>
              IF attempts <= 3 THEN pc = "sending"
              ELSE Finished /\ clientResult.kind = "raise" /\ opResult.kind = "raise")
    /\ (InFlight ~> Finished)

C20_Witness ==
    /\ Finished /\ attempts = 4
    /\ response = ReadTimeout
    /\ retries.read = -1
    /\ clientResult = Raise("requests.ConnectionError")

\* a tool has called its operation
OperationCalled == pc # "idle" /\ call.op # "none"

\* C14 as claimed: whatever the Authorization header of the inbound request,
\* an operation is called only with a bearer token that is not empty, and a
\* request whose header gives an empty token is rejected by the tool.
C14_Claim ==
    /\ OperationCalled => call.bearer_token # ""
    /\ (pc # "idle" /\ inbound = AuthHeader(<<"Bearer ">>)) =>
          toolResult.kind = "raise" /\ ~OperationCalled

Contains(text, token) == \E i \in DOMAIN text : text[i] = token

\* C17: when the operation of a tool raised a TeslaAPIError, the tool ends by
\* raising one RuntimeError whose text holds the error's message and, the
\* error carrying a status code, that code; _execute applied to a
\* TeslaAPIError without status code gives a text without any.
C17_Translated ==
    /\ (Finished /\ opResult.exc = "TeslaAPIError") =>
          /\ toolResult.kind = "raise" /\ toolResult.exc = "RuntimeError"
          /\ Contains(toolResult.text, Str(opResult.message))
          /\ opResult.status_code # PyNone =>
                Contains(toolResult.text, Str(opResult.status_code))
    /\ \A m \in {"invalid bearer token", "401 Client Error: Unauthorized"} :
          _execute(TeslaAPIError(PyStr(m), PyNone, PyNone))
              = RuntimeError(<<"Tesla API error", ": ", m>>)

C17_Witness ==
    /\ Finished
    /\ inbound = AuthHeader(<<"Bearer ", "T">>)
    /\ call.op = "door_lock"
    /\ opResult.exc = "TeslaAPIError" /\ opResult.status_code = PyInt(401)
    /\ toolResult.text = <<"Tesla API error", " (status ", "401", ")", ": ",
                           "invalid bearer token">>

----------------------------------------------------------------------------
(* TeslaMate operations *)

\* the path prefix of every TeslaMate operation
CarsPath == <<"/", "api", "/", "v1", "/", "cars">>

\* seq begins with prefix
StartsWith(seq, prefix) ==
    Len(seq) >= Len(prefix) /\ SubSeq(seq, 1, Len(prefix)) = prefix

\* C22: every TeslaMate operation issues a GET whose URL is the caller's
\* endpoint argument without its trailing slashes, followed by a path that
\* begins with /api/v1/cars, whatever TESLA_BASE_URL holds.
C22_CallerHost ==
    (Requested /\ call.op \in TeslaMateOps) =>
        /\ request.method = "GET"
        /\ StartsWith(request.url, Stripped(call.endpoint))
        /\ StartsWith(SubSeq(request.url, Len(Stripped(call.endpoint)) + 1, Len(request.url)),
                      CarsPath)

C22_Witness ==
    /\ Finished
    /\ call.op = "get_car_charges" /\ call.id = <<"42">>
    /\ call.endpoint = Host \o <<"/", "/">>
    /\ env.TESLA_BASE_URL.set /\ env.TESLA_BASE_URL.val = Host \o <<"/", "/", "proxy">>
    /\ request.url = Host \o <<"/", "api", "/", "v1", "/", "cars", "/", "42", "/", "charges">>

----------------------------------------------------------------------------
(* The payload of an error *)

\* C23 as claimed: for a non-2xx response that surfaces as TeslaAPIError, the
\* payload of the error equals the decoded body whenever the body decodes as
\* JSON (an empty list and the other falsy values included), and the error
\* carries no payload (None or the empty mapping) when the body does not decode.
C23_Claim ==
    (Finished /\ GotResponse /\ clientResult.exc = "TeslaAPIError") =>
        LET decoded == JsonDecode(response.body)
        IN  IF decoded.ok
            THEN clientResult.payload = decoded.value
            ELSE clientResult.payload \in {PyNone, EmptyDict}

----------------------------------------------------------------------------
(* Statelessness between calls *)

\* what caller t's call in progress sends: the request TeslaClient.request
\* builds and the Cookie header the session adds to it
Sent(th) == [request |-> th.request, cookie |-> th.cookie]

\* C21 as claimed: the system is stateless between calls: when a caller
\* repeats a finished call with the same arguments under the same environment,
\* the repeated call sends the same request (method, URL, headers, query,
\* body) as the earlier one, whatever the earlier calls did or received.
C21_Claim ==
    [][\A t \in Threads :
          (/\ threads[t].pc = "done"
           /\ threads'[t].pc = "sending" /\ threads'[t].attempts = 0
           /\ threads'[t].call = threads[t].call
           /\ env' = env)
              => Sent(threads'[t]) = Sent(threads[t])]_vars

----------------------------------------------------------------------------
(* The environment, read at each call *)

\* a call begins with this step
CallBegins == pc \in {"idle", "done"} /\ pc' = "sending"

\* the base URL the environment gives at this moment, trailing slashes removed
EnvBase ==
    IF env.TESLA_BASE_URL.set THEN Stripped(env.TESLA_BASE_URL.val)
    ELSE <<"https:", "/", "/", "api.myteslamate.com">>

\* the request of the call that begins is built from the environment of that moment
ResolvedAtCall ==
    CallBegins =>
        /\ call'.op \notin TeslaMateOps => request'.url = EnvBase \o TargetPath(call')
        /\ IF env.TESLA_BYPASS.set /\ env.TESLA_BYPASS.val # ""
           THEN HasKey(request'.params, "bypass")
                  /\ DictGet(request'.params, "bypass") = PyStr(env.TESLA_BYPASS.val)
           ELSE ~HasKey(request'.params, "bypass")

\* C24: base URL and bypass value are read from the environment at each call:
\* with TESLA_BASE_URL unset a Fleet request goes to https://api.myteslamate.com,
\* with it set to its value; a call that begins after a change of
\* TESLA_BASE_URL or TESLA_BYPASS sends a request built from the changed
\* values, and the change leaves the request of the earlier call as it was.
C24_PerCall == [][ResolvedAtCall /\ (env' # env => request' = request)]_vars

\* a call in flight whose request was built before the environment changed
C24_Witness ==
    /\ pc = "sending" /\ call.op = "door_lock"
    /\ ~env.TESLA_BASE_URL.set /\ ~env.TESLA_BYPASS.set
    /\ StartsWith(request.url, Host)
    /\ HasKey(request.params, "bypass")

----------------------------------------------------------------------------
(* The log of a call *)

\* the debug entries among the log records of the call
DebugEntries == {i \in DOMAIN log : log[i].level = "DEBUG"}

\* the values of the query of the request, as text
QueryTexts == {Str(request.params.items[k]) : k \in DOMAIN request.params.items}

\* C25: a call of TeslaClient.request makes exactly one debug log entry, made
\* before any HTTP attempt, whose text records the upper-cased method and the
\* URL base_url + endpoint and nothing else; what it records after the words
\* of its format holds neither the bearer token nor a key or value of the
\* query (so not the bypass value).
C25_DebugEntry ==
    OperationCalled =>
        /\ Cardinality(DebugEntries) = 1
        /\ log[1] = [logger |-> "tesla_mcp.client", level |-> "DEBUG",
                     text |-> <<"Tesla API ", request.method, " ">>
                                 \o callContext.base_url \o TargetPath(call)]
        /\ request.method \in {"GET", "POST", "DELETE"}
        /\ \A i \in 4..Len(log[1].text) :
              /\ log[1].text[i] # call.bearer_token
              /\ log[1].text[i] \notin DOMAIN request.params.items
              /\ log[1].text[i] \notin QueryTexts

\* a call with a bypass value in its query, before its first attempt and after
\* _execute logged its error
C25_Witness ==
    /\ Finished /\ call.op = "door_lock"
    /\ DictGet(request.params, "bypass") = PyStr("tok")
    /\ opResult.exc = "TeslaAPIError"
    /\ Len(log) = 2
    /\ log[1].text = <<"Tesla API ", "POST", " ">> \o Host
                        \o <<"/", "api", "/", "1", "/", "vehicles", "/", "VIN1", "/",
                             "command", "/", "door_lock">>

----------------------------------------------------------------------------
(* The Tool Adapter: token first, then the operation *)

\* the inbound request has an Authorization header that starts with "Bearer "
HasBearerPrefix == inbound.present /\ inbound.value # <<>> /\ inbound.value[1] = "Bearer "

\* C26: a tool extracts the bearer token before it calls its operation: on an
\* inbound request without Authorization header, or with one that does not
\* start with "Bearer ", the tool fails with a RuntimeError, no operation is
\* called and no HTTP request is sent; an operation that is called gets the
\* token of the header.
C26_TokenFirst ==
    /\ (pc # "idle" /\ ~HasBearerPrefix) =>
          /\ toolResult = RuntimeError(<<"No Authorization header found in MCP request">>)
          /\ ~OperationCalled
          /\ requestCalls = 0 /\ attempts = 0 /\ response = NoResponse
    /\ OperationCalled =>
          /\ HasBearerPrefix
          /\ requestCalls = 1
          /\ call.bearer_token = (IF Len(inbound.value) >= 2 THEN inbound.value[2] ELSE "")

\* a tool called with a header of another scheme, after a call that went upstream
C26_Witness ==
    /\ pc = "done"
    /\ inbound = AuthHeader(<<"Basic ", "dXNlcg==">>)
    /\ toolResult.kind = "raise" /\ toolResult.exc = "RuntimeError"
    /\ call.op = "none" /\ attempts = 0

\* C28: _execute calls the handler once and, when the handler returns, hands
\* its value on unchanged; a TeslaAPIError becomes a RuntimeError, and every
\* other exception of the handler (a transport exception of the HTTP library,
\* a TypeError) passes unchanged.
C28_Execute ==
    (Finished /\ OperationCalled) =>
        /\ requestCalls = 1
        /\ opResult.kind = "return" => toolResult = ToolReturn(opResult.value)
        /\ (opResult.kind = "raise" /\ opResult.exc = "TeslaAPIError")
              => toolResult.kind = "raise" /\ toolResult.exc = "RuntimeError"
        /\ (opResult.kind = "raise" /\ opResult.exc # "TeslaAPIError")
              => toolResult = [kind |-> "raise", exc |-> opResult.exc,
                               value |-> PyNone, text |-> <<>>]

\* a transport exception passes _execute
C28_Witness ==
    /\ Finished /\ OperationCalled
    /\ response.kind = "connect_error" /\ attempts = 4
    /\ opResult.exc \notin {"", "TeslaAPIError", "RuntimeError"}
    /\ toolResult.kind = "raise" /\ toolResult.exc = opResult.exc

----------------------------------------------------------------------------
(* The query of TeslaClient.request *)

\* the params TeslaClient.request was called with, None read as empty
GivenQuery == IF call.opts["params"] = PyNone THEN EmptyDict ELSE call.opts["params"]

\* C27: with TESLA_BYPASS unset or empty the query of the request is exactly
\* the caller's params (empty when none were given), with no bypass key added;
\* with TESLA_BYPASS not empty the query is the caller's params with the key
\* bypass set to the configured value, in place of a bypass value of the
\* caller, every other key as the caller gave it.
C27_Query ==
    (Requested /\ call.op = "request") =>
        IF env.TESLA_BYPASS.set /\ env.TESLA_BYPASS.val # ""
        THEN /\ request.params.t = "dict"
             /\ DOMAIN request.params.items = DOMAIN GivenQuery.items \cup {"bypass"}
             /\ request.params.items["bypass"] = PyStr(env.TESLA_BYPASS.val)
             /\ \A k \in DOMAIN GivenQuery.items \ {"bypass"} :
                   request.params.items[k] = GivenQuery.items[k]
        ELSE request.params = GivenQuery

\* the configured value replaced the caller's own bypass value
C27_Witness ==
    /\ Finished /\ call.op = "request" /\ request.method = "POST"
    /\ call.opts["params"] = PyDict([bypass |-> PyStr("mine"), vin |-> PyStr("x")])
    /\ env.TESLA_BYPASS.val = "tok"
    /\ request.params = PyDict([bypass |-> PyStr("tok"), vin |-> PyStr("x")])

----------------------------------------------------------------------------
(* Token verification *)

Verified == verifier.pc = "done"

\* the user data of a decoded body: its `response` field when present, else the body
UserData(payload) == IF HasKey(payload, "response") THEN payload.items["response"] ELSE payload

\* the GET answered 200 with a JSON body whose user data is an object
GoodAnswer ==
    /\ verifier.outcome.kind = "response" /\ verifier.outcome.status = 200
    /\ HttpxJson(verifier.outcome.body).ok
    /\ UserData(HttpxJson(verifier.outcome.body).value).t = "dict"

\* C29 as claimed: verify_token never raises, returns an AccessToken only
\* when the GET to {api_base_url}/api/1/users/me answered 200 with a JSON body
\* whose user data is an object, and returns None for every other outcome.
C29_Claim ==
    Verified =>
        /\ verifier.result.kind = "return"
        /\ ~verifier.result.token.none => GoodAnswer
        /\ ~GoodAnswer => verifier.result.token.none

\* the scopes the user data of the answer reports: the entries of `scopes`
\* (or, that being empty, `scope`) that are not empty
Reported ==
    LET user_data == UserData(HttpxJson(verifier.outcome.body).value)
        raw == IF Truthy(DictGet(user_data, "scopes")) THEN DictGet(user_data, "scopes")
               ELSE DictGet(user_data, "scope")
    IN  CASE raw.t = "list" -> {raw.elems[i].s : i \in {j \in DOMAIN raw.elems : raw.elems[j].s # ""}}
          [] raw.t = "str"  -> Set(parse_scopes(raw.s))
          [] OTHER          -> {}

Accepted == verifier.result.kind = "return" /\ ~verifier.result.token.none

\* C30: with required scopes configured, when the user data reports scopes the
\* token is accepted exactly if every required scope is among them (None is
\* returned otherwise), and an accepted token carries all required scopes;
\* when the user data reports no scopes the token is accepted and is given
\* exactly the list of required scopes.
C30_Scopes ==
    (Verified /\ GoodAnswer /\ verifier.required_scopes # <<>>) =>
        /\ verifier.result.kind = "return"
        /\ Accepted => Set(verifier.required_scopes) \subseteq Set(verifier.result.token.scopes)
        /\ IF Reported # {}
           THEN /\ Accepted <=> Set(verifier.required_scopes) \subseteq Reported
                /\ Accepted => Set(verifier.result.token.scopes) = Reported
           ELSE Accepted /\ verifier.result.token.scopes = verifier.required_scopes

\* a token whose user data reports no scopes is given the provider's default scopes
C30_Witness ==
    /\ Verified /\ verifier.outcome.body = BodyUser /\ verifier.outcome.status = 200
    /\ verifier.required_scopes = DefaultScopes
    /\ verifier.result.token.token = "U"
    /\ verifier.result.token.scopes = DefaultScopes

====
